---- MODULE Spec2Model ----
(***************************************************************************)
(* Model of conductr_cli/sandbox_run_jvm.py: the JVM based sandbox runner. *)
(*                                                                         *)
(* run() is modelled as a sequential state machine (variable pc), one      *)
(* action per step of run and per iteration of the loops of its callees.   *)
(* Text (instance expressions, the output of `java -version`) is modelled  *)
(* as sequences of one-character strings; an address of the CIDR range is  *)
(* modelled by its position in addr_range.hosts() (1 = first host).        *)
(***************************************************************************)
EXTENDS Integers, Sequences, FiniteSets, TLC

(***************************************************************************)
(* Bounds of the model.                                                    *)
(***************************************************************************)
MaxInstances == 2    \* largest count written in an instance expression of a run
MaxHosts == 3        \* largest number of host addresses in addr_range
MaxExprLen == 5      \* longest enumerated instance expression (parser check)
MaxParsed == 12      \* largest N, A, B whose decimal string is parsed

(***************************************************************************)
(* Program constants.                                                      *)
(***************************************************************************)
BIND_TEST_PORT == 19991
CONDUCTR_AKKA_REMOTING_PORT == 9004
NR_OF_PROXY_INSTANCE == 1
SUPPORTED_JVM_VENDOR == <<"java">>
SUPPORTED_JVM_VERSION == <<1, 8>>

None == "None"

(***************************************************************************)
(* Text helpers: Python's str and int on text.                             *)
(***************************************************************************)
DigitChars == <<"0", "1", "2", "3", "4", "5", "6", "7", "8", "9">>

IsDigit(c) == \E d \in 1..10 : DigitChars[d] = c

DigitVal(c) == (CHOOSE d \in 1..10 : DigitChars[d] = c) - 1

\* s[a..b] as a sequence; empty when a > b.
Sub(s, a, b) == IF a > b THEN <<>> ELSE SubSeq(s, a, b)

\* Positions of the separator character in s.
SepPositions(s, sep) == {i \in 1..Len(s) : s[i] = sep}

\* str.split(sep)[0]: the text before the first separator.
SplitFirst(s, sep) ==
    IF SepPositions(s, sep) = {} THEN s
    ELSE LET p == CHOOSE i \in SepPositions(s, sep) :
                      \A j \in SepPositions(s, sep) : i <= j
         IN  Sub(s, 1, p - 1)

\* str.split(sep)[-1]: the text after the last separator.
SplitLast(s, sep) ==
    IF SepPositions(s, sep) = {} THEN s
    ELSE LET p == CHOOSE i \in SepPositions(s, sep) :
                      \A j \in SepPositions(s, sep) : i >= j
         IN  Sub(s, p + 1, Len(s))

\* str.split(sep): all the parts, in order.
RECURSIVE Split(_, _)
Split(s, sep) ==
    IF SepPositions(s, sep) = {} THEN <<s>>
    ELSE LET p == CHOOSE i \in SepPositions(s, sep) :
                      \A j \in SepPositions(s, sep) : i <= j
         IN  <<Sub(s, 1, p - 1)>> \o Split(Sub(s, p + 1, Len(s)), sep)

\* str.replace(c, ''): s without the character c.
Remove(s, c) == SelectSeq(s, LAMBDA x : x # c)

\* str.strip() restricted to the blank character.
RECURSIVE StripLeft(_)
StripLeft(s) ==
    IF s # <<>> /\ Head(s) = " " THEN StripLeft(Tail(s)) ELSE s

RECURSIVE StripRight(_)
StripRight(s) ==
    IF s # <<>> /\ s[Len(s)] = " " THEN StripRight(Sub(s, 1, Len(s) - 1)) ELSE s

Strip(s) == StripRight(StripLeft(s))

\* Value of a sequence of decimal digits.
RECURSIVE DigitsVal(_)
DigitsVal(s) ==
    IF s = <<>> THEN 0
    ELSE 10 * DigitsVal(Sub(s, 1, Len(s) - 1)) + DigitVal(s[Len(s)])

\* The unsigned body of an int literal: digits, with single underscores
\* allowed between digits.
IntBodyOk(s) ==
    /\ s # <<>>
    /\ \A i \in 1..Len(s) : IsDigit(s[i]) \/ s[i] = "_"
    /\ s[1] # "_"
    /\ s[Len(s)] # "_"
    /\ \A i \in 1..(Len(s) - 1) : ~(s[i] = "_" /\ s[i + 1] = "_")

\* int(text): blanks around are ignored, one optional sign, then the body.
\* ok = FALSE models ValueError.
PyInt(text) ==
    LET t    == Strip(text)
        sgn  == IF t # <<>> /\ t[1] \in {"+", "-"} THEN t[1] ELSE ""
        body == IF sgn = "" THEN t ELSE Tail(t)
    IN  IF IntBodyOk(body)
        THEN [ok |-> TRUE,
              val |-> IF sgn = "-" THEN 0 - DigitsVal(Remove(body, "_"))
                      ELSE DigitsVal(Remove(body, "_"))]
        ELSE [ok |-> FALSE, val |-> 0]

\* str(n) for n >= 0: the decimal string.
RECURSIVE PyStr(_)
PyStr(n) ==
    IF n < 10 THEN <<DigitChars[n + 1]>>
    ELSE PyStr(n \div 10) \o <<DigitChars[(n % 10) + 1]>>

(***************************************************************************)
(* instance_count                                                          *)
(***************************************************************************)
\* re.search(NR_OF_INSTANCE_EXPRESSION, text): '[0-9]+\:[0-9]+' is found
\* somewhere in the text.
NR_OF_INSTANCE_EXPRESSION(text) ==
    \E i \in 1..(Len(text) - 2) :
        IsDigit(text[i]) /\ text[i + 1] = ":" /\ IsDigit(text[i + 2])

Returned(core, agent) ==
    [raised |-> None, carried |-> <<>>, core |-> core, agent |-> agent]

\* `carried` is what the exception is built from.
Raised(err, carried) ==
    [raised |-> err, carried |-> carried, core |-> 0, agent |-> 0]

\* The except-branch of instance_count: the expression is not an int.
instance_count_except_agentFromFirst(instance_expression) ==
    IF NR_OF_INSTANCE_EXPRESSION(instance_expression)
    THEN LET first == PyInt(SplitFirst(instance_expression, ":"))
         IN  IF ~first.ok
             THEN Raised("ValueError", <<SplitFirst(instance_expression, ":")>>)
             ELSE Returned(first.val, first.val)
    ELSE Raised("InstanceCountError", <<instance_expression>>)

instance_count_except(instance_expression) ==
    IF NR_OF_INSTANCE_EXPRESSION(instance_expression)
    THEN LET first == PyInt(SplitFirst(instance_expression, ":"))
             last  == PyInt(SplitLast(instance_expression, ":"))
         IN  IF ~first.ok
             THEN Raised("ValueError", <<SplitFirst(instance_expression, ":")>>)
             ELSE IF ~last.ok
             THEN Raised("ValueError", <<SplitLast(instance_expression, ":")>>)
             ELSE Returned(first.val, last.val)
    ELSE Raised("InstanceCountError", <<instance_expression>>)

instance_count(instance_expression) ==
    LET nr_of_instances == PyInt(instance_expression)
    IN  IF nr_of_instances.ok
        THEN Returned(nr_of_instances.val, nr_of_instances.val)
        ELSE instance_count_except(instance_expression)

(***************************************************************************)
(* validate_jvm_support                                                    *)
(***************************************************************************)
\* str.splitlines() with "\n" the only line break.
SplitLines(text) ==
    IF text = <<>> THEN <<>>
    ELSE IF text[Len(text)] = "\n" THEN Split(Sub(text, 1, Len(text) - 1), "\n")
    ELSE Split(text, "\n")

\* Tuple comparison (major, minor) >= SUPPORTED_JVM_VERSION.
VersionAtLeast(major, minor, min) ==
    major > min[1] \/ (major = min[1] /\ minor >= min[2])

\* The outcome of validate_jvm_support on the output of `java -version`:
\* "ok" for a normal return, otherwise the name of the exception raised.
\* subprocess.getoutput returns the output whatever the exit status is and
\* never raises CalledProcessError, so probe.exit is not consulted.
validate_jvm_support(probe) ==
    LET raw_output == probe.output
        lines      == SplitLines(raw_output)
        parts      == Split(lines[1], " ")
        jvm_vendor == parts[1]
        jvm_version == Remove(parts[3], "\"")
        jvm_version_parts == Split(jvm_version, ".")
        jvm_version_major == PyInt(jvm_version_parts[1])
        jvm_version_minor == PyInt(jvm_version_parts[2])
    IN  IF lines = <<>> THEN "JavaVersionParseError"
        ELSE IF Len(parts) # 3 THEN "JavaVersionParseError"
        ELSE IF jvm_vendor # SUPPORTED_JVM_VENDOR THEN "JavaUnsupportedVendorError"
        ELSE IF Len(jvm_version_parts) < 2 THEN "JavaVersionParseError"
        ELSE IF ~jvm_version_major.ok \/ ~jvm_version_minor.ok THEN "ValueError"
        ELSE IF VersionAtLeast(jvm_version_major.val, jvm_version_minor.val,
                               SUPPORTED_JVM_VERSION)
             THEN "ok"
        ELSE "JavaUnsupportedVersionError"

\* Outputs of `java -version` the host can produce (a word is one symbol).
JavaVersionOutputs ==
    { <<"java", " ", "version", " ", "\"", "1", ".", "8", ".", "0", "\"", "\n", "Java(TM)">>,
      <<"java", " ", "version", " ", "\"", "1", ".", "7", "\"">>,
      <<"java", " ", "version", " ", "\"", "9", "\"">>,
      <<"java", " ", "version", " ", "\"", "1", ".", "x", "\"">>,
      <<"openjdk", " ", "version", " ", "\"", "1", ".", "8", "\"">>,
      <<"sh:", " ", "java:", " ", "not", " ", "found">>,
      <<>> }

JavaProbes == [exit : {0, 1}, output : JavaVersionOutputs]

(***************************************************************************)
(* Python list helpers                                                     *)
(***************************************************************************)
Max(a, b) == IF a >= b THEN a ELSE b

Min(a, b) == IF a <= b THEN a ELSE b

\* list[0:stop], stop possibly negative or beyond the end.
SliceTo(list, stop) ==
    IF stop < 0 THEN Sub(list, 1, Max(Len(list) + stop, 0))
    ELSE Sub(list, 1, Min(stop, Len(list)))

Range(seq) == {seq[i] : i \in 1..Len(seq)}

IsPrefix(s, t) == Len(s) <= Len(t) /\ \A i \in 1..Len(s) : s[i] = t[i]

(***************************************************************************)
(* State                                                                   *)
(***************************************************************************)
VARIABLES
    pc,                     \* the step of run that executes next
    java_probe,             \* what `java -version` gave: exit status and output
    error,                  \* the exception run raised, None while there is none
    error_args,             \* what the exception carries
    started,                \* the steps of run entered so far, in order
    returned,               \* the steps of run that returned normally, in order
    instance_expression,    \* args.nr_of_containers
    nr_of_core_instances,
    nr_of_agent_instances,
    nr_hosts,               \* number of addresses of args.addr_range.hosts(), at least 1
    nr_of_addrs,            \* find_bind_addrs: the required count
    host_iter,              \* find_bind_addrs: hosts taken from the iterator
    addrs_to_bind,
    addrs_unavailable,
    probes,                 \* the calls of host.can_bind: address, port, outcome
    setup_addrs,            \* the list given to host.addr_alias_setup_instructions
    bind_addrs,
    image_dir,              \* the kinds whose archive is present in image_dir
    extraction_dirs,        \* per kind: whether the directory exists, and its entries
    core_path,
    agent_path,
    cache_lookups,          \* the calls of os.path.exists on an archive: <<kind, outcome>>
    credential_loads,       \* number of calls of load_bintray_credentials
    downloads,              \* the kinds for which bintray_download was called
    extractions,            \* the kinds for which extract_binary was called
    core_extracted_dir,
    agent_extracted_dir,
    archives,               \* per kind: the top-level folder of its archive, once read
    obtain_call,            \* which call of obtain_sandbox_image this is
    first_obtain,           \* what the first call of obtain_sandbox_image left
    core_addrs,
    core_pids,
    agent_addrs,
    agent_pids,
    pids,                   \* the local list of start_core/agent_instances
    procs,                  \* the processes spawned and running; the pid is the position
    result                  \* the SandboxRunResult, None until it is built

histVars == <<started, returned>>

countVars == <<instance_expression, nr_of_core_instances, nr_of_agent_instances>>

jvmVars == <<java_probe>>

bindVars == <<nr_hosts, nr_of_addrs, host_iter, addrs_to_bind, addrs_unavailable,
              probes, setup_addrs, bind_addrs>>

imageVars == <<image_dir, extraction_dirs, core_path, agent_path, cache_lookups,
               credential_loads, downloads, extractions,
               core_extracted_dir, agent_extracted_dir>>

callVars == <<archives, obtain_call, first_obtain>>

launchVars == <<core_addrs, core_pids, agent_addrs, agent_pids, pids, procs, result>>

vars == <<pc, error, error_args, histVars, countVars, jvmVars, bindVars, imageVars, callVars,
          launchVars>>

Kinds == {"core", "agent"}

\* A directory entry: `name` inside the sub-directory `dir` ("." = directly
\* in the extraction directory).
Entry(dir, name) == [dir |-> dir, name |-> name]

\* An extraction directory: absent, or present with its entries.
AbsentDir == [exists |-> FALSE, entries |-> {}]

Dir(entries) == [exists |-> TRUE, entries |-> entries]

\* What is left in an extraction directory by an earlier run.
StaleEntries == {Entry(".", "stale")}

\* The files every archive wraps into its top-level folder.
ArchiveFiles == {"bin", "conf"}

\* The names the top-level folder of an archive can have: the base name of
\* the archive file, or something else.
ArchiveTopNames == {"basename", "other"}

\* The instance expressions of the modelled runs.
RunExpressions ==
    {PyStr(n) : n \in 0..MaxInstances}
    \cup {PyStr(a) \o <<":">> \o PyStr(b) : a, b \in 0..MaxInstances}
    \cup {<<"-">> \o PyStr(a) \o <<":">> \o PyStr(b) :
              a \in 1..MaxInstances, b \in 0..MaxInstances}
    \cup {<<"-", "1">>, <<"x">>, <<"x", "1", ":", "2">>, <<>>}

InitLocals ==
    /\ java_probe = None
    /\ error = None
    /\ error_args = <<>>
    /\ started = <<>>
    /\ returned = <<>>
    /\ nr_of_core_instances = None
    /\ nr_of_agent_instances = None
    /\ nr_of_addrs = None
    /\ host_iter = 0
    /\ addrs_to_bind = <<>>
    /\ addrs_unavailable = <<>>
    /\ probes = <<>>
    /\ setup_addrs = None
    /\ bind_addrs = None
    /\ core_path = None
    /\ agent_path = None
    /\ cache_lookups = <<>>
    /\ credential_loads = 0
    /\ downloads = <<>>
    /\ extractions = <<>>
    /\ core_extracted_dir = None
    /\ agent_extracted_dir = None
    /\ core_addrs = None
    /\ core_pids = None
    /\ agent_addrs = None
    /\ agent_pids = None
    /\ pids = <<>>
    /\ procs = <<>>
    /\ result = None
    /\ archives = [k \in Kinds |-> "unknown"]
    /\ obtain_call = 1
    /\ first_obtain = None

InitCommon ==
    /\ pc = "instance_count"
    /\ InitLocals

Init ==
    /\ InitCommon
    /\ instance_expression \in RunExpressions
    /\ nr_hosts \in 1..MaxHosts
    /\ image_dir \in SUBSET Kinds
    /\ extraction_dirs \in [Kinds -> {AbsentDir, Dir(StaleEntries)}]

\* An exception leaves run: nothing of run executes after it.
Raise(err, args) ==
    /\ pc' = "failed"
    /\ error' = err
    /\ error_args' = args

NoRaise == UNCHANGED <<error, error_args>>

\* A step of run is entered / returns normally.
Enter(step) == started' = Append(started, step)

Return(step) == returned' = Append(returned, step)

(***************************************************************************)
(* run, line 55: instance_count                                            *)
(***************************************************************************)
InstanceCountStep ==
    /\ pc = "instance_count"
    /\ Enter("instance_count")
    /\ LET r == instance_count(instance_expression)
       IN  IF r.raised = None
           THEN /\ nr_of_core_instances' = r.core
                /\ nr_of_agent_instances' = r.agent
                /\ Return("instance_count")
                /\ pc' = "validate_jvm_support"
                /\ NoRaise
           ELSE /\ Raise(r.raised, r.carried)
                /\ UNCHANGED <<nr_of_core_instances, nr_of_agent_instances, returned>>
    /\ UNCHANGED <<instance_expression, jvmVars, bindVars, imageVars, callVars, launchVars>>

(***************************************************************************)
(* run, line 57: validate_jvm_support                                      *)
(***************************************************************************)
\* (variant: a failed validation is swallowed and run goes on)
ValidateJvmStep_swallowsError ==
    /\ pc = "validate_jvm_support"
    /\ Enter("validate_jvm_support")
    /\ \E probe \in JavaProbes :
          LET outcome == validate_jvm_support(probe)
          IN  /\ java_probe' = probe
              /\ IF outcome = "ok"
                 THEN Return("validate_jvm_support")
                 ELSE UNCHANGED returned
    /\ pc' = "sandbox_stop.stop"
    /\ NoRaise
    /\ UNCHANGED <<countVars, bindVars, imageVars, callVars, launchVars>>

ValidateJvmStep ==
    /\ pc = "validate_jvm_support"
    /\ Enter("validate_jvm_support")
    /\ \E probe \in JavaProbes :
          LET outcome == validate_jvm_support(probe)
          IN  /\ java_probe' = probe
              /\ IF outcome = "ok"
                 THEN /\ Return("validate_jvm_support")
                      /\ pc' = "sandbox_stop.stop"
                      /\ NoRaise
                 ELSE /\ Raise(outcome, <<>>)
                      /\ UNCHANGED returned
    /\ UNCHANGED <<countVars, bindVars, imageVars, callVars, launchVars>>

(***************************************************************************)
(* run, line 59: sandbox_stop.stop, an external collaborator that returns  *)
(* or raises                                                               *)
(***************************************************************************)
SandboxStopStep ==
    /\ pc = "sandbox_stop.stop"
    /\ Enter("sandbox_stop.stop")
    /\ \E stopped \in BOOLEAN :
          IF stopped
          THEN /\ Return("sandbox_stop.stop")
               /\ pc' = "find_bind_addrs"
               /\ NoRaise
          ELSE /\ Raise("SandboxStopError", <<>>)
               /\ UNCHANGED returned
    /\ UNCHANGED <<countVars, jvmVars, bindVars, imageVars, callVars, launchVars>>

(***************************************************************************)
(* run, line 64: find_bind_addrs                                           *)
(***************************************************************************)
\* The call and lines 194-195.
FindBindAddrsEnter ==
    /\ pc = "find_bind_addrs"
    /\ Enter("find_bind_addrs")
    /\ nr_of_addrs' = Max(nr_of_core_instances, nr_of_agent_instances)
    /\ host_iter' = 0
    /\ addrs_to_bind' = <<>>
    /\ addrs_unavailable' = <<>>
    /\ pc' = "find_bind_addrs.for"
    /\ NoRaise
    /\ UNCHANGED <<returned, countVars, jvmVars, nr_hosts, probes, setup_addrs, bind_addrs,
                   imageVars, callVars, launchVars>>

\* One iteration of the loop, lines 196-203: the next host is probed, and
\* the loop is left when enough addresses are found.
FindBindAddrsProbe ==
    /\ pc = "find_bind_addrs.for"
    /\ host_iter < nr_hosts
    /\ \E can_bind \in BOOLEAN :
          LET ip_addr == host_iter + 1
              found   == IF can_bind THEN Append(addrs_to_bind, ip_addr)
                         ELSE addrs_to_bind
          IN  /\ host_iter' = host_iter + 1
              /\ probes' = Append(probes, [addr |-> ip_addr, port |-> BIND_TEST_PORT,
                                           ok |-> can_bind])
              /\ addrs_to_bind' = found
              /\ addrs_unavailable' = IF can_bind THEN addrs_unavailable
                                      ELSE Append(addrs_unavailable, ip_addr)
              /\ pc' = IF Len(found) >= nr_of_addrs
                       THEN "find_bind_addrs.after"
                       ELSE "find_bind_addrs.for"
    /\ NoRaise
    /\ UNCHANGED <<histVars, countVars, jvmVars, nr_hosts, nr_of_addrs, setup_addrs,
                   bind_addrs, imageVars, callVars, launchVars>>

\* The list handed to host.addr_alias_setup_instructions, lines 206-207.
AddrsToSetUp_allUnavailable(unavailable, required, found) == unavailable

AddrsToSetUp(unavailable, required, found) ==
    SliceTo(unavailable, required - Len(found))

\* Line 205: not enough addresses were found.
TooFew_onlyWhenNone(found, required) == Len(found) = 0 /\ required > 0

TooFew(found, required) == Len(found) < required

\* After the loop (left by break, or the hosts are exhausted), lines 205-211.
FindBindAddrsFinish ==
    /\ \/ pc = "find_bind_addrs.after"
       \/ pc = "find_bind_addrs.for" /\ host_iter = nr_hosts
    /\ IF TooFew(addrs_to_bind, nr_of_addrs)
       THEN /\ setup_addrs' = AddrsToSetUp(addrs_unavailable, nr_of_addrs, addrs_to_bind)
            /\ Raise("BindAddressNotFoundError", <<>>)
            /\ UNCHANGED <<bind_addrs, returned>>
       ELSE /\ bind_addrs' = addrs_to_bind
            /\ Return("find_bind_addrs")
            /\ pc' = "obtain_sandbox_image"
            /\ NoRaise
            /\ UNCHANGED setup_addrs
    /\ UNCHANGED <<started, countVars, jvmVars, nr_hosts, nr_of_addrs, host_iter,
                   addrs_to_bind, addrs_unavailable, probes, imageVars, callVars, launchVars>>

(***************************************************************************)
(* run, line 66: obtain_sandbox_image                                      *)
(***************************************************************************)
\* The path of the archive of a kind in image_dir.
ArchivePath(kind) ==
    IF kind = "core" THEN "image_dir/conductr-version.tgz"
    ELSE "image_dir/conductr-agent-version.tgz"

\* resolve_binary_from_cache, lines 287-290.
resolve_binary_from_cache_neverFound(kind) == None

resolve_binary_from_cache(kind) ==
    IF kind \in image_dir THEN ArchivePath(kind) ELSE None

\* Line 260: something is to be downloaded.
AnyUnresolved_always(c_path, a_path) == TRUE

AnyUnresolved(c_path, a_path) == c_path = None \/ a_path = None

\* The call, and lines 255-260 of resolve_binaries: both cache lookups and
\* the decision whether anything is to be downloaded.
ResolveFromCache ==
    /\ pc = "obtain_sandbox_image"
    /\ Enter("obtain_sandbox_image")
    /\ cache_lookups' = cache_lookups \o <<<<"core", "core" \in image_dir>>,
                                            <<"agent", "agent" \in image_dir>>>>
    /\ core_path' = resolve_binary_from_cache("core")
    /\ agent_path' = resolve_binary_from_cache("agent")
    /\ pc' = IF AnyUnresolved(core_path', agent_path')
             THEN "load_bintray_credentials"
             ELSE "extract_binary.core"
    /\ NoRaise
    /\ UNCHANGED <<returned, countVars, jvmVars, bindVars, image_dir, extraction_dirs,
                   credential_loads, downloads, extractions,
                   core_extracted_dir, agent_extracted_dir, callVars,
                   launchVars>>

\* Lines 262-263.
LoadCredentials ==
    /\ pc = "load_bintray_credentials"
    /\ credential_loads' = credential_loads + 1
    /\ pc' = IF core_path = None THEN "bintray_download.core"
             ELSE "bintray_download.agent"
    /\ NoRaise
    /\ UNCHANGED <<histVars, countVars, jvmVars, bindVars, image_dir, extraction_dirs,
                   core_path, agent_path, cache_lookups, downloads, extractions,
                   core_extracted_dir, agent_extracted_dir, callVars,
                   launchVars>>

\* What bintray_download can do: store the archive, or raise.
DownloadOutcomes == {"ok", "ConnectionError", "HTTPError"}

\* Line 315: the descriptions of the two kinds; only the type is used here.
core_info == [type |-> "core"]

agent_info == [type |-> "agent"]

\* The requested version, passed through unchanged.
image_version == "image_version"

\* The except clauses of resolve_binaries, lines 273-276.
DownloadFailed(outcome) ==
    /\ IF outcome = "ConnectionError"
       THEN Raise("BintrayUnreachableError", <<>>)
       ELSE Raise("SandboxImageNotFoundError", <<core_info.type, image_version>>)
    /\ UNCHANGED <<image_dir, core_path, agent_path>>

\* Lines 264-267: the core archive is downloaded when it was not cached.
DownloadCore ==
    /\ pc = "bintray_download.core"
    /\ downloads' = Append(downloads, "core")
    /\ \E outcome \in DownloadOutcomes :
          IF outcome = "ok"
          THEN /\ image_dir' = image_dir \cup {"core"}
               /\ core_path' = ArchivePath("core")
               /\ pc' = IF agent_path = None THEN "bintray_download.agent"
                        ELSE "extract_binary.core"
               /\ NoRaise
               /\ UNCHANGED agent_path
          ELSE DownloadFailed(outcome)
    /\ UNCHANGED <<histVars, countVars, jvmVars, bindVars, extraction_dirs, cache_lookups,
                   credential_loads, extractions, core_extracted_dir,
                   agent_extracted_dir, callVars, launchVars>>

\* Lines 269-272: the agent archive is downloaded when it was not cached.
DownloadAgent ==
    /\ pc = "bintray_download.agent"
    /\ downloads' = Append(downloads, "agent")
    /\ \E outcome \in DownloadOutcomes :
          IF outcome = "ok"
          THEN /\ image_dir' = image_dir \cup {"agent"}
               /\ agent_path' = ArchivePath("agent")
               /\ pc' = "extract_binary.core"
               /\ NoRaise
               /\ UNCHANGED core_path
          ELSE DownloadFailed(outcome)
    /\ UNCHANGED <<histVars, countVars, jvmVars, bindVars, extraction_dirs, cache_lookups,
                   credential_loads, extractions, core_extracted_dir,
                   agent_extracted_dir, callVars, launchVars>>

\* shutil.unpack_archive: the archive's files, inside its top-level folder.
Unpacked(top) == {Entry(top, f) : f \in ArchiveFiles}

\* Lines 310-312: the entries of the sub-directory named after the archive
\* are moved up and the sub-directory is removed.
Flattened(entries) ==
    {e \in entries : e.dir # "basename"}
    \cup {Entry(".", e.name) : e \in {x \in entries : x.dir = "basename"}}

\* extract_binary, lines 302-313, for the archive of one kind whose
\* top-level folder is `top`, into the directory `before`: the new state of
\* the extraction directory and whether os.listdir found the sub-directory.
extract_binary_merges(before, top) ==
    LET removed  == before
        emptied  == Dir(removed.entries)
        unpacked == Dir(emptied.entries \cup Unpacked(top))
        found    == \E e \in unpacked.entries : e.dir = "basename"
    IN  [raised |-> IF found THEN None ELSE "FileNotFoundError",
         dir    |-> IF found THEN Dir(Flattened(unpacked.entries)) ELSE unpacked]

extract_binary(before, top) ==
    LET removed  == IF before.exists THEN AbsentDir ELSE before
        emptied  == Dir(removed.entries)
        unpacked == Dir(emptied.entries \cup Unpacked(top))
        found    == \E e \in unpacked.entries : e.dir = "basename"
    IN  [raised |-> IF found THEN None ELSE "FileNotFoundError",
         dir    |-> IF found THEN Dir(Flattened(unpacked.entries)) ELSE unpacked]

\* The top-level folders the archive of a kind can turn out to have: any,
\* until the archive has been read once; the archive file does not change.
TopsOf(kind) ==
    IF archives[kind] = "unknown" THEN ArchiveTopNames ELSE {archives[kind]}

\* Line 319.
ExtractCore ==
    /\ pc = "extract_binary.core"
    /\ extractions' = Append(extractions, "core")
    /\ \E top \in TopsOf("core") :
          LET r == extract_binary(extraction_dirs["core"], top)
          IN  /\ archives' = [archives EXCEPT !["core"] = top]
              /\ extraction_dirs' = [extraction_dirs EXCEPT !["core"] = r.dir]
              /\ IF r.raised = None
                 THEN /\ core_extracted_dir' = "core"
                      /\ pc' = "extract_binary.agent"
                      /\ NoRaise
                 ELSE /\ Raise(r.raised, <<>>)
                      /\ UNCHANGED core_extracted_dir
    /\ UNCHANGED <<histVars, countVars, jvmVars, bindVars, image_dir, core_path, agent_path,
                   cache_lookups, credential_loads, downloads,
                   agent_extracted_dir, obtain_call, first_obtain, launchVars>>

\* Lines 320-322, and the return to run.
ExtractAgent ==
    /\ pc = "extract_binary.agent"
    /\ extractions' = Append(extractions, "agent")
    /\ \E top \in TopsOf("agent") :
          LET r == extract_binary(extraction_dirs["agent"], top)
          IN  /\ archives' = [archives EXCEPT !["agent"] = top]
              /\ extraction_dirs' = [extraction_dirs EXCEPT !["agent"] = r.dir]
              /\ IF r.raised = None
                 THEN /\ agent_extracted_dir' = "agent"
                      /\ Return("obtain_sandbox_image")
                      /\ pc' = "start_core_instances"
                      /\ NoRaise
                 ELSE /\ Raise(r.raised, <<>>)
                      /\ UNCHANGED <<agent_extracted_dir, returned>>
    /\ UNCHANGED <<started, countVars, jvmVars, bindVars, image_dir, core_path, agent_path,
                   cache_lookups, credential_loads, downloads,
                   core_extracted_dir, obtain_call, first_obtain, launchVars>>

(***************************************************************************)
(* run, lines 68-72: start_core_instances and start_agent_instances        *)
(***************************************************************************)
\* One element of a command line: a format text, with the directory, the
\* address and the port formatted into it ("" and 0 where it has none).
Arg(text, dir, addr, port) ==
    [text |-> text, dir |-> dir, addr |-> addr, port |-> port]

\* Lines 342-350: the command line of the core instance idx (0-based).
CoreCommands_seedAlways(extracted_dir, addrs, idx) ==
    <<Arg("{}/bin/conductr", extracted_dir, 0, 0),
      Arg("-Dconductr.ip={}", "", addrs[idx + 1], 0)>>
    \o IF idx >= 0
       THEN <<Arg("--seed", "", 0, 0),
              Arg("{}:{}", "", addrs[1], CONDUCTR_AKKA_REMOTING_PORT)>>
       ELSE <<>>

CoreCommands(extracted_dir, addrs, idx) ==
    <<Arg("{}/bin/conductr", extracted_dir, 0, 0),
      Arg("-Dconductr.ip={}", "", addrs[idx + 1], 0)>>
    \o IF idx > 0
       THEN <<Arg("--seed", "", 0, 0),
              Arg("{}:{}", "", addrs[1], CONDUCTR_AKKA_REMOTING_PORT)>>
       ELSE <<>>

\* Lines 380-385: the command line of the agent instance idx (0-based).
AgentCommands(extracted_dir, addrs, idx) ==
    <<Arg("{}/bin/conductr-agent", extracted_dir, 0, 0),
      Arg("-Dconductr.agent.ip={}", "", addrs[idx + 1], 0),
      Arg("--core-node", "", 0, 0),
      Arg("{}:{}", "", addrs[idx + 1], CONDUCTR_AKKA_REMOTING_PORT)>>

\* A process as subprocess.Popen starts it.
Process(role, idx, commands, cwd) ==
    [role |-> role, idx |-> idx, commands |-> commands, cwd |-> cwd]

\* Line 68 and the call of line 69.
StartCoreEnter ==
    /\ pc = "start_core_instances"
    /\ Enter("start_core_instances")
    /\ core_addrs' = SliceTo(bind_addrs, nr_of_core_instances)
    /\ pids' = <<>>
    /\ pc' = "start_core_instances.for"
    /\ NoRaise
    /\ UNCHANGED <<returned, countVars, jvmVars, bindVars, imageVars, callVars, core_pids,
                   agent_addrs, agent_pids, procs, result>>

\* subprocess.Popen fails: the OSError, which carries the executable that could
\* not be started, leaves the launcher and run.
\* (variant: the processes started so far are torn down)
SpawnFailed_tearsDown(commands) ==
    /\ Raise("OSError", <<commands[1]>>)
    /\ procs' = <<>>
    /\ UNCHANGED pids

SpawnFailed(commands) ==
    /\ Raise("OSError", <<commands[1]>>)
    /\ UNCHANGED <<pids, procs>>

\* One iteration of the loop of start_core_instances, lines 341-359.
StartCoreSpawn ==
    /\ pc = "start_core_instances.for"
    /\ Len(pids) < Len(core_addrs)
    /\ \E spawned \in BOOLEAN :
          IF spawned
          THEN /\ procs' = Append(procs,
                       Process("core", Len(pids),
                               CoreCommands(core_extracted_dir, core_addrs, Len(pids)),
                               core_extracted_dir))
               /\ pids' = Append(pids, Len(procs) + 1)
               /\ UNCHANGED pc
               /\ NoRaise
          ELSE SpawnFailed(CoreCommands(core_extracted_dir, core_addrs, Len(pids)))
    /\ UNCHANGED <<histVars, countVars, jvmVars, bindVars, imageVars, callVars, core_addrs, core_pids,
                   agent_addrs, agent_pids, result>>

\* Line 360, and the assignment of line 69.
StartCoreReturn ==
    /\ pc = "start_core_instances.for"
    /\ Len(pids) = Len(core_addrs)
    /\ core_pids' = pids
    /\ Return("start_core_instances")
    /\ pc' = "start_agent_instances"
    /\ NoRaise
    /\ UNCHANGED <<started, countVars, jvmVars, bindVars, imageVars, callVars, core_addrs,
                   agent_addrs, agent_pids, pids, procs, result>>

\* Line 71 and the call of line 72.
StartAgentEnter ==
    /\ pc = "start_agent_instances"
    /\ Enter("start_agent_instances")
    /\ agent_addrs' = SliceTo(bind_addrs, nr_of_agent_instances)
    /\ pids' = <<>>
    /\ pc' = "start_agent_instances.for"
    /\ NoRaise
    /\ UNCHANGED <<returned, countVars, jvmVars, bindVars, imageVars, callVars, core_addrs, core_pids,
                   agent_pids, procs, result>>

\* One iteration of the loop of start_agent_instances, lines 379-393.
StartAgentSpawn ==
    /\ pc = "start_agent_instances.for"
    /\ Len(pids) < Len(agent_addrs)
    /\ \E spawned \in BOOLEAN :
          IF spawned
          THEN /\ procs' = Append(procs,
                       Process("agent", Len(pids),
                               AgentCommands(agent_extracted_dir, agent_addrs, Len(pids)),
                               agent_extracted_dir))
               /\ pids' = Append(pids, Len(procs) + 1)
               /\ UNCHANGED pc
               /\ NoRaise
          ELSE SpawnFailed(AgentCommands(agent_extracted_dir, agent_addrs, Len(pids)))
    /\ UNCHANGED <<histVars, countVars, jvmVars, bindVars, imageVars, callVars, core_addrs, core_pids,
                   agent_addrs, agent_pids, result>>

\* Line 394, and the assignment of line 72.
StartAgentReturn ==
    /\ pc = "start_agent_instances.for"
    /\ Len(pids) = Len(agent_addrs)
    /\ agent_pids' = pids
    /\ Return("start_agent_instances")
    /\ pc' = "SandboxRunResult"
    /\ NoRaise
    /\ UNCHANGED <<started, countVars, jvmVars, bindVars, imageVars, callVars, core_addrs, core_pids,
                   agent_addrs, pids, procs, result>>

(***************************************************************************)
(* run, line 74: SandboxRunResult                                          *)
(***************************************************************************)
\* SandboxRunResult.__init__, lines 30-35.  An address and its str() are
\* both modelled by the position of the address in the range.
SandboxRunResult(c_pids, c_addrs, a_pids, a_addrs, nr_of_proxy_instances) ==
    [core_pids |-> c_pids, core_addrs |-> c_addrs,
     agent_pids |-> a_pids, agent_addrs |-> a_addrs,
     nr_of_proxy_instances |-> nr_of_proxy_instances,
     host |-> c_addrs[1]]

\* (variant: an empty core_addrs gives a result without a host)
BuildResult_hostOptional ==
    /\ pc = "SandboxRunResult"
    /\ Enter("SandboxRunResult")
    /\ result' = [core_pids |-> core_pids, core_addrs |-> core_addrs,
                  agent_pids |-> agent_pids, agent_addrs |-> agent_addrs,
                  nr_of_proxy_instances |-> NR_OF_PROXY_INSTANCE,
                  host |-> IF core_addrs = <<>> THEN 0 ELSE core_addrs[1]]
    /\ Return("SandboxRunResult")
    /\ pc' = "done"
    /\ NoRaise
    /\ UNCHANGED <<countVars, jvmVars, bindVars, imageVars, callVars, core_addrs, core_pids,
                   agent_addrs, agent_pids, pids, procs>>

BuildResult ==
    /\ pc = "SandboxRunResult"
    /\ Enter("SandboxRunResult")
    /\ IF core_addrs = <<>>
       THEN /\ Raise("IndexError", <<>>)
            /\ UNCHANGED <<result, returned>>
       ELSE /\ result' = SandboxRunResult(core_pids, core_addrs, agent_pids,
                                          agent_addrs, NR_OF_PROXY_INSTANCE)
            /\ Return("SandboxRunResult")
            /\ pc' = "done"
            /\ NoRaise
    /\ UNCHANGED <<countVars, jvmVars, bindVars, imageVars, callVars, core_addrs, core_pids,
                   agent_addrs, agent_pids, pids, procs>>

(***************************************************************************)
(* Specifications                                                          *)
(***************************************************************************)
Next ==
    \/ InstanceCountStep
    \/ ValidateJvmStep
    \/ SandboxStopStep
    \/ FindBindAddrsEnter
    \/ FindBindAddrsProbe
    \/ FindBindAddrsFinish
    \/ ResolveFromCache
    \/ LoadCredentials
    \/ DownloadCore
    \/ DownloadAgent
    \/ ExtractCore
    \/ ExtractAgent
    \/ StartCoreEnter
    \/ StartCoreSpawn
    \/ StartCoreReturn
    \/ StartAgentEnter
    \/ StartAgentSpawn
    \/ StartAgentReturn
    \/ BuildResult

Spec == Init /\ [][Next]_vars

\* instance_count alone, on every text over ExprAlphabet up to MaxExprLen
\* characters and on the decimal strings of the counts up to MaxParsed.
ExprAlphabet == {"0", "1", "2", ":", "x", "-", " "}

ParseExpressions ==
    UNION {[1..k -> ExprAlphabet] : k \in 0..MaxExprLen}
    \cup {PyStr(n) : n \in 0..MaxParsed}
    \cup {PyStr(a) \o <<":">> \o PyStr(b) : a, b \in 0..MaxParsed}

InitParse ==
    /\ InitCommon
    /\ instance_expression \in ParseExpressions
    /\ nr_hosts = 1
    /\ image_dir = {}
    /\ extraction_dirs = [k \in Kinds |-> AbsentDir]

NextParse == InstanceCountStep

SpecParse == InitParse /\ [][NextParse]_vars

\* obtain_sandbox_image alone, called twice with the same image_dir and
\* image_version: the second call starts when the first has returned.
ObtainAgain ==
    /\ pc = "start_core_instances"
    /\ obtain_call = 1
    /\ first_obtain' = [core_extracted_dir |-> core_extracted_dir,
                        agent_extracted_dir |-> agent_extracted_dir,
                        extraction_dirs |-> extraction_dirs,
                        credential_loads |-> credential_loads,
                        downloads |-> downloads,
                        extractions |-> extractions]
    /\ obtain_call' = 2
    /\ pc' = "obtain_sandbox_image"
    /\ NoRaise
    /\ UNCHANGED <<histVars, countVars, jvmVars, bindVars, imageVars, archives, launchVars>>

InitObtain ==
    /\ pc = "obtain_sandbox_image"
    /\ InitLocals
    /\ instance_expression = <<"1">>
    /\ nr_hosts = 1
    /\ image_dir \in SUBSET Kinds
    /\ extraction_dirs \in [Kinds -> {AbsentDir, Dir({}), Dir(StaleEntries)}]

NextObtain ==
    \/ ResolveFromCache
    \/ LoadCredentials
    \/ DownloadCore
    \/ DownloadAgent
    \/ ExtractCore
    \/ ExtractAgent
    \/ ObtainAgain

SpecObtain == InitObtain /\ [][NextObtain]_vars

(***************************************************************************)
(* Properties                                                              *)
(***************************************************************************)
\* The step that raised, when run has failed: the last one entered.
FailedStep == started[Len(started)]

CoreProcs == {i \in 1..Len(procs) : procs[i].role = "core"}

AgentProcs == {i \in 1..Len(procs) : procs[i].role = "agent"}

\* The order of the steps as the sequencing contract states it.
ContractOrder ==
    <<"instance_count", "validate_jvm_support", "sandbox_stop.stop",
      "find_bind_addrs", "obtain_sandbox_image", "start_core_instances",
      "start_agent_instances", "SandboxRunResult">>

HasReturned(step) == step \in Range(returned)

\* C1: the steps of run are entered in the order of the sequencing contract,
\* one at a time, each only after all the earlier ones have returned without
\* error; the effects of a step (probes, cache lookups, spawns, the result)
\* are seen only after the steps before it have returned, and all the core
\* instances are launched before the first agent instance.
C1_StepsInOrder ==
    /\ IsPrefix(started, ContractOrder)
    /\ IsPrefix(returned, started)
    /\ Len(started) - Len(returned) \in {0, 1}
    /\ probes # <<>> => HasReturned("sandbox_stop.stop")
    /\ (cache_lookups # <<>> \/ credential_loads > 0 \/ downloads # <<>>
          \/ extractions # <<>>) => HasReturned("find_bind_addrs")
    /\ procs # <<>> => HasReturned("obtain_sandbox_image")
    /\ AgentProcs # {} =>
          /\ HasReturned("start_core_instances")
          /\ Cardinality(CoreProcs) = Len(core_addrs)
          /\ \A c \in CoreProcs, a \in AgentProcs : c < a
    /\ pc = "done" => returned = ContractOrder

C1_Witness ==
    /\ pc = "done"
    /\ returned = ContractOrder
    /\ Cardinality(CoreProcs) = 2
    /\ AgentProcs # {}

\* C2: once a step of run has failed, nothing more happens: no step is
\* entered, no process is spawned; and no step of run, failing or not, ever
\* removes a process that was spawned.
C2_FailureAbortsAndKeepsProcesses ==
    /\ [](pc = "failed" => error # None /\ Len(started) = Len(returned) + 1)
    /\ [][/\ IsPrefix(procs, procs')
          /\ pc' = "failed" => procs' = procs
          /\ pc = "failed" => UNCHANGED vars]_vars

C2_Witness ==
    /\ pc = "failed"
    /\ error = "OSError"
    /\ FailedStep = "start_agent_instances"
    /\ Len(procs) >= 2

\* The position of the argument `text` in a command line, 0 when absent.
ArgPos(commands, text) ==
    IF \E i \in 1..Len(commands) : commands[i].text = text
    THEN CHOOSE i \in 1..Len(commands) : commands[i].text = text
    ELSE 0

\* The argument `text` is given, followed by "address:port".
GivenWith(commands, text, addr, port) ==
    LET i == ArgPos(commands, text)
    IN  /\ i > 0
        /\ i < Len(commands)
        /\ commands[i + 1] = Arg("{}:{}", "", addr, port)

\* C3: the core instance 0 is started without --seed, every core instance
\* i > 0 with --seed <address of core instance 0>:9004, and every agent
\* instance with --core-node <its own address>:9004.
C3_SeedArguments ==
    \A i \in 1..Len(procs) :
        LET p == procs[i]
        IN  /\ (p.role = "core" /\ p.idx = 0) => ArgPos(p.commands, "--seed") = 0
            /\ (p.role = "core" /\ p.idx > 0) =>
                  GivenWith(p.commands, "--seed", core_addrs[1], 9004)
            /\ p.role = "agent" =>
                  /\ GivenWith(p.commands, "--core-node", agent_addrs[p.idx + 1], 9004)
                  /\ p.commands[2] = Arg("-Dconductr.agent.ip={}", "",
                                         agent_addrs[p.idx + 1], 0)

C3_Witness ==
    /\ \E i \in CoreProcs : procs[i].idx = 0
    /\ \E i \in CoreProcs : procs[i].idx = 1
    /\ \E i \in AgentProcs : procs[i].idx = 0
    /\ \E i \in AgentProcs : procs[i].idx = 1

\* The addresses whose probe succeeded / failed in this call, in probe order.
Accepted == SelectSeq(probes, LAMBDA pr : pr.ok)

Rejected == SelectSeq(probes, LAMBDA pr : ~pr.ok)

Addrs(prs) == [i \in 1..Len(prs) |-> prs[i].addr]

Ascending(list) == \A i, j \in 1..Len(list) : i < j => list[i] < list[j]

\* C4 (as claimed): whenever find_bind_addrs returns, for a required count
\* nr_of_addrs >= 0, it returns exactly nr_of_addrs addresses, ascending and
\* distinct, each a host of the range whose probe succeeded in this call.
C4_ExactlyCountAddresses ==
    (HasReturned("find_bind_addrs") /\ nr_of_addrs >= 0) =>
        /\ Len(bind_addrs) = nr_of_addrs
        /\ Ascending(bind_addrs)
        /\ \A i \in 1..Len(bind_addrs) :
              /\ bind_addrs[i] \in 1..nr_hosts
              /\ [addr |-> bind_addrs[i], port |-> 19991, ok |-> TRUE] \in Range(probes)

\* The shortfall of a failed find_bind_addrs.
Shortfall == nr_of_addrs - Len(addrs_to_bind)

\* C5 (as claimed): when find_bind_addrs finds fewer than the required
\* addresses it raises BindAddressNotFoundError and the list handed to the
\* instruction generator has exactly `shortfall` elements, the first
\* rejected addresses in probe order.
C5_SetupListIsShortfall ==
    /\ (started # <<>> /\ FailedStep = "find_bind_addrs" /\ pc = "failed") =>
          /\ error = "BindAddressNotFoundError"
          /\ Len(setup_addrs) = Shortfall
          /\ IsPrefix(setup_addrs, Addrs(Rejected))
    /\ HasReturned("find_bind_addrs") => Len(Accepted) >= nr_of_addrs

\* C5 (amended): ... the list has min(shortfall, number of rejected
\* addresses) elements, the first rejected addresses in probe order; it has
\* exactly `shortfall` elements whenever the range has at least as many
\* hosts as addresses are required.
C5_SetupListIsShortfallOrAllRejected ==
    /\ (started # <<>> /\ FailedStep = "find_bind_addrs" /\ pc = "failed") =>
          /\ error = "BindAddressNotFoundError"
          /\ Len(Accepted) < nr_of_addrs
          /\ Shortfall = nr_of_addrs - Len(Accepted)
          /\ Len(setup_addrs) = Min(Shortfall, Len(Rejected))
          /\ IsPrefix(setup_addrs, Addrs(Rejected))
          /\ nr_hosts >= nr_of_addrs => Len(setup_addrs) = Shortfall
    /\ HasReturned("find_bind_addrs") => Len(Accepted) >= nr_of_addrs

C5_Witness ==
    /\ pc = "failed"
    /\ error = "BindAddressNotFoundError"
    /\ nr_of_addrs = 2
    /\ Len(Accepted) = 1
    /\ Len(Rejected) = 2
    /\ setup_addrs = <<1>>

\* Artifact or network activity, or a spawn, has taken place.
ArtifactActivity ==
    \/ cache_lookups # <<>>
    \/ credential_loads > 0
    \/ downloads # <<>>
    \/ extractions # <<>>
    \/ procs # <<>>

\* C6: when the range has fewer bindable addresses than the instance
\* expression requires, run fails in find_bind_addrs with
\* BindAddressNotFoundError, and at that moment no cache lookup, credential
\* load, download, extraction or spawn has taken place.
C6_BindFailureBeforeArtifacts ==
    /\ error = "BindAddressNotFoundError" => ~ArtifactActivity
    /\ (HasReturned("sandbox_stop.stop") /\ Len(probes) = nr_hosts
          /\ Len(Accepted) < Max(nr_of_core_instances, nr_of_agent_instances)) =>
          /\ ~ArtifactActivity
          /\ pc \in {"find_bind_addrs", "find_bind_addrs.for",
                    "find_bind_addrs.after", "failed"}
          /\ pc = "failed" => error = "BindAddressNotFoundError"

C6_Witness ==
    /\ pc = "failed"
    /\ error = "BindAddressNotFoundError"
    /\ instance_expression = <<"1">>
    /\ nr_hosts = 3
    /\ Len(Rejected) = 3

\* The address a process was told to bind to.
BoundTo(p) == p.commands[2].addr

\* C7 (as claimed): the result of a successful run has host = core_addrs[0], the address
\* of the core instance 0; one pid per address, pid i belonging to the
\* process of instance i on address i; and as many core / agent addresses as
\* the expression asked for.
C7_ResultShape ==
    pc = "done" =>
        /\ result.host = result.core_addrs[1]
        /\ Len(result.core_pids) = Len(result.core_addrs)
        /\ Len(result.agent_pids) = Len(result.agent_addrs)
        /\ Len(result.core_addrs) = nr_of_core_instances
        /\ Len(result.agent_addrs) = nr_of_agent_instances
        /\ \A i \in 1..Len(result.core_pids) :
              LET p == procs[result.core_pids[i]]
              IN  p.role = "core" /\ p.idx = i - 1 /\ BoundTo(p) = result.core_addrs[i]
        /\ \A i \in 1..Len(result.agent_pids) :
              LET p == procs[result.agent_pids[i]]
              IN  p.role = "agent" /\ p.idx = i - 1 /\ BoundTo(p) = result.agent_addrs[i]
        /\ \E i \in CoreProcs : procs[i].idx = 0 /\ BoundTo(procs[i]) = result.host

\* instance_count has been applied to instance_expression.
Parsed == pc # "instance_count"

\* C8: instance_count of the decimal string of N >= 0 returns (N, N), and
\* instance_count of "A:B", A and B decimal strings of counts >= 0, returns
\* (A, B).
C8_ParsesCountsAndPairs ==
    Parsed =>
        /\ \A n \in 0..MaxParsed :
              instance_expression = PyStr(n) =>
                  /\ pc = "validate_jvm_support"
                  /\ nr_of_core_instances = n
                  /\ nr_of_agent_instances = n
        /\ \A a, b \in 0..MaxParsed :
              instance_expression = PyStr(a) \o <<":">> \o PyStr(b) =>
                  /\ pc = "validate_jvm_support"
                  /\ nr_of_core_instances = a
                  /\ nr_of_agent_instances = b

C8_Witness ==
    /\ Parsed
    /\ instance_expression = <<"1", "0", ":", "7">>
    /\ nr_of_core_instances = 10
    /\ nr_of_agent_instances = 7

\* A plain integer, read as generously as int() reads it.
PlainInteger(text) == PyInt(text).ok

\* <int>:<int>: exactly one colon and an integer on each side of it.
IntColonInt(text) ==
    /\ Cardinality(SepPositions(text, ":")) = 1
    /\ PlainInteger(SplitFirst(text, ":"))
    /\ PlainInteger(SplitLast(text, ":"))

\* C9 (as claimed): for an expression that is neither a plain integer nor
\* <int>:<int>, instance_count raises InstanceCountError carrying the
\* expression: it returns no counts and raises nothing else.
C9_MalformedRaisesInstanceCountError ==
    (Parsed /\ ~PlainInteger(instance_expression) /\ ~IntColonInt(instance_expression)) =>
        /\ pc = "failed"
        /\ error = "InstanceCountError"
        /\ error_args = <<instance_expression>>

\* The kinds the cache lookups of this call did not find.
Missing == {k \in Kinds : <<k, FALSE>> \in Range(cache_lookups)}

NoDuplicates(list) == \A i, j \in 1..Len(list) : list[i] = list[j] => i = j

\* resolve_binaries is over: it returned, or a download raised.
ResolveOver ==
    \/ extractions # <<>>
    \/ pc = "extract_binary.core"
    \/ pc = "failed" /\ started # <<>> /\ FailedStep = "obtain_sandbox_image"

\* What holds of the cache, the credentials and the downloads at any time.
ResolveSafety ==
    /\ \A k \in Range(downloads) : k \in Missing
    /\ NoDuplicates(downloads)
    /\ credential_loads <= 1
    /\ credential_loads = 1 => Missing # {}
    /\ downloads # <<>> => credential_loads = 1

SecondObtainReturned == obtain_call = 2 /\ pc = "start_core_instances"

\* C11: a call of obtain_sandbox_image that follows a successful call with
\* the same arguments loads no credentials and downloads nothing, returns,
\* and returns the same two directories, with the contents the first call
\* left in them.
C11_ObtainIdempotent ==
    obtain_call = 2 =>
        /\ credential_loads = first_obtain.credential_loads
        /\ downloads = first_obtain.downloads
        /\ pc # "failed"
        /\ SecondObtainReturned =>
              /\ core_extracted_dir = first_obtain.core_extracted_dir
              /\ agent_extracted_dir = first_obtain.agent_extracted_dir
              /\ extraction_dirs = first_obtain.extraction_dirs
              /\ Len(extractions) = Len(first_obtain.extractions) + 2

C11_Witness ==
    /\ SecondObtainReturned
    /\ first_obtain.downloads = <<"core", "agent">>
    /\ first_obtain.credential_loads = 1
    /\ extraction_dirs["core"].entries # {}

\* A download of resolve_binaries has failed.
DownloadHasFailed ==
    /\ pc = "failed"
    /\ FailedStep = "obtain_sandbox_image"
    /\ error \in {"BintrayUnreachableError", "SandboxImageNotFoundError"}

\* C12: a failed download is reported as BintrayUnreachableError or as
\* SandboxImageNotFoundError; the latter carries the kind of the archive whose
\* download failed, which is the last one requested, and the requested
\* version; no archive is extracted after either.
C12_NotFoundNamesFailedKind ==
    DownloadHasFailed =>
        /\ extractions = <<>>
        /\ downloads # <<>>
        /\ error = "SandboxImageNotFoundError" =>
              error_args = <<downloads[Len(downloads)], image_version>>
        /\ error = "BintrayUnreachableError" => error_args = <<>>

\* The archive's files sit directly in the extraction directory, and nothing
\* else does.
IsFlattened(dir) ==
    /\ dir.exists
    /\ dir.entries = {Entry(".", f) : f \in ArchiveFiles}

SpawnHasFailed == pc = "failed" /\ error = "OSError"

\* The role of the launcher that failed.
FailedRole == IF FailedStep = "start_core_instances" THEN "core" ELSE "agent"

\* C14: when a spawn fails, the launcher has started the instances before the
\* failed one once each and the failed one not at all (no retry), and the
\* error that reaches the caller names the role and the index of the instance
\* that failed to spawn.
C14_SpawnFailureNamesRoleAndIndex ==
    SpawnHasFailed =>
        /\ Cardinality({i \in 1..Len(procs) : procs[i].role = FailedRole}) = Len(pids)
        /\ \A i \in 1..Len(procs) :
              procs[i].role = FailedRole => procs[i].idx < Len(pids)
        /\ Len(error_args) = 2
        /\ error_args[1] = FailedRole
        /\ error_args[2] = Len(pids)

\* C15: the pool find_bind_addrs returns has max(core_count, agent_count)
\* addresses; the core instances get its first core_count entries and the
\* agent instances its first agent_count entries, so the shorter of the two
\* lists is a prefix of the longer.
C15_SinglePoolShared ==
    /\ HasReturned("find_bind_addrs") =>
          Len(bind_addrs) = Max(nr_of_core_instances, nr_of_agent_instances)
    /\ "start_core_instances" \in Range(started) =>
          /\ Len(core_addrs) = nr_of_core_instances
          /\ IsPrefix(core_addrs, bind_addrs)
    /\ "start_agent_instances" \in Range(started) =>
          /\ Len(agent_addrs) = nr_of_agent_instances
          /\ IsPrefix(agent_addrs, bind_addrs)
          /\ IsPrefix(core_addrs, agent_addrs) \/ IsPrefix(agent_addrs, core_addrs)

\* The number of addresses accepted by the probes before the i-th one.
AcceptedBefore(i) == Cardinality({j \in 1..(i - 1) : probes[j].ok})

\* C16: the hosts are probed in ascending order, each at most once, and, for
\* a required count nr_of_addrs >= 0 (0 included), no probe is made once the
\* accepted list has reached nr_of_addrs: every probe was made with fewer
\* than nr_of_addrs addresses accepted before it.
C16_NoProbeOnceSatisfied ==
    ("find_bind_addrs" \in Range(started) /\ nr_of_addrs >= 0) =>
        /\ Ascending(Addrs(probes))
        /\ \A i \in 1..Len(probes) :
              /\ probes[i].addr \in 1..nr_hosts
              /\ AcceptedBefore(i) < nr_of_addrs

\* The kinds whose extraction has succeeded in the current call of
\* obtain_sandbox_image.
ExtractedNow ==
    IF pc = "extract_binary.agent" THEN {"core"}
    ELSE IF pc = "start_core_instances" THEN Kinds
    ELSE {}

\* The extractions of the calls made so far, when each extracts both kinds.
BothPerCall(calls) == [i \in 1..(2 * calls) |-> IF i % 2 = 1 THEN "core" ELSE "agent"]

\* C17: a call of obtain_sandbox_image that returns has extracted both
\* archives, core then agent, whether they came from the cache or not; after
\* a successful extract_binary the extraction directory exists and holds only
\* entries that come from the archive, nothing of what it held before.
C17_ExtractsBothAndRecreates ==
    /\ pc = "start_core_instances" => extractions = BothPerCall(obtain_call)
    /\ \A kind \in ExtractedNow :
          /\ extraction_dirs[kind].exists
          /\ extraction_dirs[kind].entries \cap StaleEntries = {}
          /\ \A e \in extraction_dirs[kind].entries : e.name \in ArchiveFiles

C17_Witness ==
    /\ obtain_call = 1
    /\ pc = "extract_binary.agent"
    /\ downloads = <<>>
    /\ extractions = <<"core">>
    /\ IsFlattened(extraction_dirs["core"])
    /\ extraction_dirs["agent"] = Dir(StaleEntries)

\* validate_jvm_support has been called and has ended, one way or the other.
JvmValidated == "validate_jvm_support" \in Range(started)

\* How validate_jvm_support ended: "ok", or the name of the exception.
JvmOutcome == IF HasReturned("validate_jvm_support") THEN "ok" ELSE error

\* C18: whenever `java -version` has exited with a nonzero status,
\* validate_jvm_support has failed with JavaCallError, and it is the last
\* step run has entered.
C18_NonzeroExitIsJavaCallError ==
    (JvmValidated /\ java_probe.exit # 0) =>
        /\ pc = "failed"
        /\ error = "JavaCallError"
        /\ FailedStep = "validate_jvm_support"

\* The tokens of the first line of the output, <<>> when there is no line.
FirstLineTokens(output) ==
    IF SplitLines(output) = <<>> THEN <<>> ELSE Split(SplitLines(output)[1], " ")

\* The unquoted version of a three-token line has a (major, minor) pair that
\* is at least SUPPORTED_JVM_VERSION.
PairAtLeastSupported(tokens) ==
    LET version == Split(Remove(tokens[3], "\""), ".")
    IN  /\ Len(version) >= 2
        /\ PyInt(version[1]).ok
        /\ PyInt(version[2]).ok
        /\ VersionAtLeast(PyInt(version[1]).val, PyInt(version[2]).val,
                          SUPPORTED_JVM_VERSION)

\* C19: on a first line of three tokens with vendor java the validation
\* succeeds exactly when the (major, minor) pair of the version is at least
\* (1, 8) and fails with JavaUnsupportedVersionError otherwise; a line with
\* another token count fails with JavaVersionParseError, a three-token line
\* with another vendor with JavaUnsupportedVendorError; nothing else happens.
C19_OutcomeByVersionPair ==
    JvmValidated =>
        LET tokens == FirstLineTokens(java_probe.output)
        IN  IF Len(tokens) # 3 THEN JvmOutcome = "JavaVersionParseError"
            ELSE IF tokens[1] # SUPPORTED_JVM_VENDOR
                 THEN JvmOutcome = "JavaUnsupportedVendorError"
            ELSE IF PairAtLeastSupported(tokens) THEN JvmOutcome = "ok"
            ELSE JvmOutcome = "JavaUnsupportedVersionError"

\* instance_count gave no core instance and at least one agent instance.
NoCoreSomeAgents ==
    /\ HasReturned("instance_count")
    /\ nr_of_core_instances = 0
    /\ nr_of_agent_instances > 0

\* C20: with a core count of 0 and a positive agent count no result is ever
\* built; when all the steps before it have succeeded, the building of the
\* SandboxRunResult fails with IndexError (core_addrs is empty) after all the
\* agent processes and no core process have been spawned, and the agent
\* processes are still running.
C20_ZeroCoresFailsAfterAgents ==
    NoCoreSomeAgents =>
        /\ pc # "done"
        /\ ~HasReturned("SandboxRunResult")
        /\ result = None
        /\ "SandboxRunResult" \in Range(started) =>
              /\ pc = "failed"
              /\ error = "IndexError"
              /\ core_addrs = <<>>
              /\ CoreProcs = {}
              /\ Cardinality(AgentProcs) = nr_of_agent_instances
              /\ Len(agent_pids) = nr_of_agent_instances
              /\ \A i \in 1..Len(agent_pids) : agent_pids[i] \in AgentProcs

C20_Witness ==
    /\ instance_expression = <<"0", ":", "1">>
    /\ pc = "failed"
    /\ error = "IndexError"
    /\ FailedStep = "SandboxRunResult"
    /\ Len(procs) = 1
    /\ procs[1].role = "agent"

====
